---- MODULE Spec2Model ----
(***************************************************************************)
(* State-machine model of langchain_crash_course:                          *)
(*   - simple_langchain/main.py    the two-step restaurant pipeline with   *)
(*                                 its manual and SequentialChain runners, *)
(*                                 the report file and the entry point     *)
(*   - simple_langchain/webApp.py  the streamlit caller of the pipeline    *)
(*   - simple_agent_with_memory/main.py  the conversation loop with a      *)
(*                                 window memory of k exchanges            *)
(* A text (Python str) is a sequence of string tokens; concatenation is \o *)
(* and the empty string is << >>.  A dict is a function from key strings.  *)
(***************************************************************************)
EXTENDS Integers, Sequences, FiniteSets, TLC

VARIABLES
    run,            \* per pipeline run: the frame of main / main_with_sequential_chain
    active,         \* the run slots this behaviour may start
    clock,          \* wall clock, seconds of the day (datetime.now())
    files,          \* working directory: file name -> the bytes of the file
    deterministic,  \* TRUE: the completion capability is a deterministic stub
    stub,           \* answers the deterministic stub has given: prompt -> outcome
    faulty,         \* TRUE: opening or writing a file may raise
    chat,           \* the conversation program (simple_agent_with_memory)
    static          \* the static chat loop (langchain_prompts/chatbot.py)

vars == <<run, active, clock, files, deterministic, stub, faulty, chat, static>>

(***************************************************************************)
(* Bounds                                                                  *)
(***************************************************************************)
ClockStart == 58        \* first clock value explored (seconds after 00:00:00)
MaxTicks == 2           \* clock ticks explored
MaxTurns == 7           \* conversation turns explored
MaxStaticTurns == 4     \* answered turns of the static chat loop explored

RunIds == {1, 2}

(***************************************************************************)
(* Texts                                                                   *)
(***************************************************************************)
RECURSIVE Repeat(_, _)
\* Python "s" * n
Repeat(s, n) == IF n <= 0 THEN << >> ELSE <<s>> \o Repeat(s, n - 1)

RECURSIVE Flatten(_)
\* "".join(seq) for a sequence of texts
Flatten(seq) ==
    IF seq = << >> THEN << >>
    ELSE IF Len(seq) = 1 THEN seq[1]
    ELSE LET h == Len(seq) \div 2
         IN  Flatten(SubSeq(seq, 1, h)) \o Flatten(SubSeq(seq, h + 1, Len(seq)))

RECURSIVE Split(_, _)
\* Python text.split(sep) for a one-token separator
Split(text, sep) ==
    IF \A i \in DOMAIN text : text[i] # sep
    THEN <<text>>
    ELSE LET i == CHOOSE j \in DOMAIN text :
                      text[j] = sep /\ \A l \in 1..(j - 1) : text[l] # sep
         IN  <<SubSeq(text, 1, i - 1)>> \o Split(SubSeq(text, i + 1, Len(text)), sep)

\* repr(str): quotes added, a newline escaped (texts here hold no quote or backslash)
ReprStr(text) ==
    <<"'">> \o [i \in DOMAIN text |-> IF text[i] = "\n" THEN "\\n" ELSE text[i]] \o <<"'">>

EmptyDict == [k \in {} |-> << >>]

(***************************************************************************)
(* Prompt templates (PromptTemplate, f-string format): a sequence of       *)
(* literal and placeholder segments                                        *)
(***************************************************************************)
Lit(s) == [kind |-> "lit", s |-> s]
Var(s) == [kind |-> "var", s |-> s]

\* create_restaurant_name_prompt_template()
NameTemplate ==
    << Lit("I want to open a restaurant for "), Var("cuisine"),
       Lit(" food. Suggest a fancy name for this. Only single name") >>

\* create_restaurant_menu_prompt_template()
MenuTemplate ==
    << Lit("Suggest some veg menu items for "), Var("restaurant_name"),
       Lit(". Return it as comma separated list.") >>

\* templates a caller of the runners may pass instead of the application's own
NameTemplates == { NameTemplate, << Lit("Name a place that serves "), Var("dish") >> }
MenuTemplates ==
    { MenuTemplate,
      << Lit("Suggest a "), Var("cuisine"), Lit(" menu.") >>,
      << Lit("Suggest sides for "), Var("dish"), Lit(" at "), Var("restaurant_name") >> }

\* PromptTemplate.input_variables: the placeholder names of the template
InputVariables(t) == { t[i].s : i \in { j \in DOMAIN t : t[j].kind = "var" } }

\* PromptTemplate.format(**bindings), all placeholders bound
Format(t, bindings) ==
    Flatten([i \in DOMAIN t |->
                IF t[i].kind = "var" THEN bindings[t[i].s] ELSE <<t[i].s>>])

\* keys a prompt needs and the given dict lacks (KeyError / "Missing some input keys")
MissingKeys(t, bindings) == InputVariables(t) \ DOMAIN bindings

(***************************************************************************)
(* Inputs                                                                  *)
(***************************************************************************)
\* cuisines typed at the prompt or passed by a caller; << >> is the empty string
Cuisines == { <<"Italian">>, << >> }
\* webApp.py: the select box
WebCuisines == { <<"Indian">>, <<"Chinese">>, <<"Mexican">>, <<"Arabic">>, <<"Italian">> }
\* choices typed at the entry point
Choices == { "1", "2", "3" }
\* texts the completion capability may return
Outputs == { <<"Bella Notte">>, <<"\n", "Margherita Pizza", ",", " Caprese Salad">> }
\* a completion call returns a text or raises
Raised == [ok |-> FALSE, text |-> << >>]
Returned(text) == [ok |-> TRUE, text |-> text]
Outcomes == { Returned(o) : o \in Outputs } \cup { Raised }

(***************************************************************************)
(* Timestamps: datetime.now().strftime                                     *)
(***************************************************************************)
Digits == <<"0", "1", "2", "3", "4", "5", "6", "7", "8", "9">>
TwoDigits(n) == << Digits[((n \div 10) % 10) + 1], Digits[(n % 10) + 1] >>
\* the date of the explored clock values
Today == [y |-> <<"2", "0", "2", "5">>, m |-> <<"0", "1">>, d |-> <<"0", "7">>]
Hour(c) == (c \div 3600) % 24
Minute(c) == (c \div 60) % 60
Second(c) == c % 60
\* strftime("%Y%m%d_%H%M%S")
FileStamp(c) ==
    Today.y \o Today.m \o Today.d \o <<"_">>
        \o TwoDigits(Hour(c)) \o TwoDigits(Minute(c)) \o TwoDigits(Second(c))
\* strftime("%Y-%m-%d %H:%M:%S")
ReportStamp(c) ==
    Today.y \o <<"-">> \o Today.m \o <<"-">> \o Today.d \o <<" ">>
        \o TwoDigits(Hour(c)) \o <<":">> \o TwoDigits(Minute(c)) \o <<":">>
        \o TwoDigits(Second(c))
\* f"restaurant_output_{timestamp}.txt"
FileName(c) == <<"restaurant_output_">> \o FileStamp(c) \o <<".txt">>

(***************************************************************************)
(* The report file                                                         *)
(***************************************************************************)
SeparatorWidth == 50

\* repr(result) of the dict SequentialChain.invoke returns (insertion order)
ReprResult(result) ==
    <<"{", "'cuisine'", ": ">> \o ReprStr(result["cuisine"])
        \o <<", ", "'restaurant_name'", ": ">> \o ReprStr(result["restaurant_name"])
        \o <<", ", "'menu_items'", ": ">> \o ReprStr(result["menu_items"]) \o <<"}">>

\* mutant: main writes no "Method:" line
ManualChunksPlain(f, now) ==
    << <<"=== LangChain Restaurant Generator Output ===", "\n">>,
       <<"Generated on: ">> \o ReportStamp(now) \o <<"\n">>,
       <<"Cuisine Type: ">> \o f.cuisine \o <<"\n">>,
       Repeat("-", SeparatorWidth) \o <<"\n", "\n">>,
       <<"Restaurant Name: ">> \o f.name \o <<"\n", "\n">>,
       <<"Menu Items: ">> \o f.menu \o <<"\n">>,
       <<"\n">> \o Repeat("=", SeparatorWidth) >>

\* the file.write() calls of main, in order; now is the clock at line 192
ManualChunks(f, now) ==
    << <<"=== LangChain Restaurant Generator Output ===", "\n">>,
       <<"Generated on: ">> \o ReportStamp(now) \o <<"\n">>,
       <<"Method: Manual Chain Management", "\n">>,
       <<"Cuisine Type: ">> \o f.cuisine \o <<"\n">>,
       Repeat("-", SeparatorWidth) \o <<"\n", "\n">>,
       <<"Restaurant Name: ">> \o f.name \o <<"\n", "\n">>,
       <<"Menu Items: ">> \o f.menu \o <<"\n">>,
       <<"\n">> \o Repeat("=", SeparatorWidth) >>

\* the file.write() calls of main_with_sequential_chain; now is the clock at line 129
SequentialChunks(f, now) ==
    << <<"=== LangChain Restaurant Generator Output ===", "\n">>,
       <<"Generated on: ">> \o ReportStamp(now) \o <<"\n">>,
       <<"Cuisine Type: ">> \o f.cuisine \o <<"\n">>,
       Repeat("-", SeparatorWidth) \o <<"\n", "\n">>,
       <<"Sequential Chain Final Output: ">> \o ReprResult(f.result) \o <<"\n", "\n">>,
       <<"Restaurant Name: ">> \o f.result["restaurant_name"] \o <<"\n", "\n">>,
       <<"Menu Items: ">> \o f.result["menu_items"] \o <<"\n">>,
       <<"\n">> \o Repeat("=", SeparatorWidth) >>

ReportChunks(f, now) ==
    IF f.runner = "manual" THEN ManualChunks(f, now) ELSE SequentialChunks(f, now)

\* the characters of a token (all of them ASCII: one byte each in UTF-8)
TokenChars(tok) ==
    CASE tok = "=== LangChain Restaurant Generator Output ===" ->
            << "=", "=", "=", " ", "L", "a", "n", "g", "C", "h", "a", "i", "n", " ",
               "R", "e", "s", "t", "a", "u", "r", "a", "n", "t", " ", "G", "e", "n",
               "e", "r", "a", "t", "o", "r", " ", "O", "u", "t", "p", "u", "t", " ",
               "=", "=", "=" >>
      [] tok = "Generated on: " ->
            << "G", "e", "n", "e", "r", "a", "t", "e", "d", " ", "o", "n", ":", " " >>
      [] tok = "Method: Manual Chain Management" ->
            << "M", "e", "t", "h", "o", "d", ":", " ", "M", "a", "n", "u", "a", "l",
               " ", "C", "h", "a", "i", "n", " ", "M", "a", "n", "a", "g", "e", "m",
               "e", "n", "t" >>
      [] tok = "Cuisine Type: " ->
            << "C", "u", "i", "s", "i", "n", "e", " ", "T", "y", "p", "e", ":", " " >>
      [] tok = "Sequential Chain Final Output: " ->
            << "S", "e", "q", "u", "e", "n", "t", "i", "a", "l", " ", "C", "h", "a",
               "i", "n", " ", "F", "i", "n", "a", "l", " ", "O", "u", "t", "p", "u",
               "t", ":", " " >>
      [] tok = "Restaurant Name: " ->
            << "R", "e", "s", "t", "a", "u", "r", "a", "n", "t", " ", "N", "a", "m",
               "e", ":", " " >>
      [] tok = "Menu Items: " ->
            << "M", "e", "n", "u", " ", "I", "t", "e", "m", "s", ":", " " >>
      [] tok = "{" -> << "{" >>
      [] tok = "}" -> << "}" >>
      [] tok = "'cuisine'" -> << "'", "c", "u", "i", "s", "i", "n", "e", "'" >>
      [] tok = "'restaurant_name'" ->
            << "'", "r", "e", "s", "t", "a", "u", "r", "a", "n", "t", "_", "n", "a",
               "m", "e", "'" >>
      [] tok = "'menu_items'" ->
            << "'", "m", "e", "n", "u", "_", "i", "t", "e", "m", "s", "'" >>
      [] tok = ": " -> << ":", " " >>
      [] tok = ", " -> << ",", " " >>
      [] tok = "'" -> << "'" >>
      [] tok = "\\n" -> << "\\", "n" >>
      [] tok = "\n" -> << "\n" >>
      [] tok = "-" -> << "-" >>
      [] tok = "=" -> << "=" >>
      [] tok = " " -> << " " >>
      [] tok = ":" -> << ":" >>
      [] tok = "," -> << "," >>
      [] tok = "Italian" -> << "I", "t", "a", "l", "i", "a", "n" >>
      [] tok = "Indian" -> << "I", "n", "d", "i", "a", "n" >>
      [] tok = "Chinese" -> << "C", "h", "i", "n", "e", "s", "e" >>
      [] tok = "Mexican" -> << "M", "e", "x", "i", "c", "a", "n" >>
      [] tok = "Arabic" -> << "A", "r", "a", "b", "i", "c" >>
      [] tok = "Bella Notte" -> << "B", "e", "l", "l", "a", " ", "N", "o", "t", "t", "e" >>
      [] tok = "Margherita Pizza" ->
            << "M", "a", "r", "g", "h", "e", "r", "i", "t", "a", " ", "P", "i", "z",
               "z", "a" >>
      [] tok = " Caprese Salad" ->
            << " ", "C", "a", "p", "r", "e", "s", "e", " ", "S", "a", "l", "a", "d" >>
      [] tok = "0" -> << "0" >>
      [] tok = "1" -> << "1" >>
      [] tok = "2" -> << "2" >>
      [] tok = "3" -> << "3" >>
      [] tok = "4" -> << "4" >>
      [] tok = "5" -> << "5" >>
      [] tok = "6" -> << "6" >>
      [] tok = "7" -> << "7" >>
      [] tok = "8" -> << "8" >>
      [] tok = "9" -> << "9" >>
\* the bytes a text takes in the file (encoding='utf-8')
Bytes(text) == Flatten([i \in DOMAIN text |-> TokenChars(text[i])])

\* the bytes the handle holds when the with block ends: the eight write() calls are
\* buffered (the report is far below the 8192-byte buffer) and reach the file at the
\* close
ReportText(f, now) == Bytes(Flatten(ReportChunks(f, now)))

\* a handle opened with 'w' writes its bytes from offset 0 over what the file holds
\* at that moment: a longer earlier content keeps its tail
Overlay(old, new) == new \o SubSeq(old, Len(new) + 1, Len(old))

\* the lines of a file
Lines(text) == Split(text, "\n")
ContentLines(text) == SelectSeq(Lines(text), LAMBDA l : l # << >>)

(***************************************************************************)
(* SequentialChain                                                         *)
(***************************************************************************)
\* the LLMChains of main_with_sequential_chain: input keys and output key
Chains(f) ==
    << [in |-> InputVariables(f.nameT), out |-> "restaurant_name"],
       [in |-> InputVariables(f.menuT), out |-> "menu_items"] >>

KnownAfter(inputVars, chains, i) == inputVars \cup { chains[j].out : j \in 1..i }

\* mutant: the validator does not look at the chains' inputs
ValidChainsLax(inputVars, chains, outputVars) ==
    outputVars \subseteq KnownAfter(inputVars, chains, Len(chains))

\* SequentialChain's validator: every chain's inputs are known when it runs, no
\* chain writes a key already known, every output variable is produced
ValidChains(inputVars, chains, outputVars) ==
    /\ \A i \in DOMAIN chains :
          /\ chains[i].in \subseteq KnownAfter(inputVars, chains, i - 1)
          /\ chains[i].out \notin KnownAfter(inputVars, chains, i - 1)
    /\ outputVars \subseteq KnownAfter(inputVars, chains, Len(chains))

(***************************************************************************)
(* Frames of the runners                                                   *)
(***************************************************************************)
NoResult == [tag |-> "pending", dict |-> EmptyDict]
NoneResult == [tag |-> "None", dict |-> EmptyDict]
DictResult(d) == [tag |-> "dict", dict |-> d]

IdleRun ==
    [ pc |-> "idle", origin |-> "none", choice |-> "", entered |-> << >>,
      runner |-> "none", cuisine |-> << >>, nameT |-> << >>, menuT |-> << >>,
      prompt |-> << >>, name |-> << >>, menu |-> << >>, result |-> EmptyDict,
      calls |-> << >>, phases |-> << >>, console |-> << >>,
      stamp |-> 0, filename |-> << >>, generated |-> 0, saved |-> FALSE,
      sinkError |-> FALSE, returned |-> NoResult, error |-> "", failedAt |-> 0,
      page |-> << >> ]

\* mutant: the second step is rendered from the cuisine, not from the returned name
BindingsStale(f, i) ==
    IF i = 1 THEN "cuisine" :> f.cuisine
    ELSE ("cuisine" :> f.cuisine) @@ ("restaurant_name" :> f.cuisine)

\* the values step i of a run renders its prompt from
Bindings(f, i) ==
    IF f.runner = "manual"
    THEN IF i = 1 THEN "cuisine" :> f.cuisine ELSE "restaurant_name" :> f.name
    ELSE IF i = 1 THEN "cuisine" :> f.cuisine
         ELSE ("cuisine" :> f.cuisine) @@ ("restaurant_name" :> f.name)

StepTemplate(f, i) == IF i = 1 THEN f.nameT ELSE f.menuT

\* what the completion capability may answer to a prompt
Answers(prompt) ==
    IF deterministic /\ prompt \in DOMAIN stub THEN { stub[prompt] } ELSE Outcomes

(***************************************************************************)
(* The runners: main (manual) and main_with_sequential_chain (sequential)  *)
(***************************************************************************)
\* the frame of a runner just called: its first print, then its first step
Enter(runner, origin, choice, c, nt, mt) ==
    [ IdleRun EXCEPT
        !.pc = IF runner = "manual" THEN "render1" ELSE "construct",
        !.origin = origin, !.choice = choice, !.entered = c,
        !.runner = runner, !.cuisine = c, !.nameT = nt, !.menuT = mt,
        !.phases = <<"INIT">>,
        !.console = IF runner = "manual"
                    THEN << <<"Main Called">> >>
                    ELSE << <<"Sequential Chain Implementation Called">> >> ]

\* mutant: the exception is swallowed and the runner returns normally
FailSwallowed(f, err, step) ==
    [ f EXCEPT !.pc = "done", !.error = err, !.failedAt = step,
               !.returned = NoneResult, !.phases = Append(@, "TERMINAL") ]

\* mutant: a failed completion call is tried again
FailRetried(f, err, step) ==
    IF err = "CapabilityError"
    THEN [ f EXCEPT !.error = err, !.failedAt = step ]
    ELSE [ f EXCEPT !.pc = "failed", !.error = err, !.failedAt = step,
                    !.phases = Append(@, "FAILED") ]

\* an exception leaves the runner: nothing after the raising statement runs
Fail(f, err, step) ==
    [ f EXCEPT !.pc = "failed", !.error = err, !.failedAt = step,
               !.phases = Append(@, "FAILED") ]

StepOf(pc) == IF pc \in {"render1", "complete1"} THEN 1 ELSE 2

\* a caller passes its own cuisine and templates to main
CallMain(r) ==
    /\ r \in active /\ run[r].pc = "idle"
    /\ \E c \in Cuisines, nt \in NameTemplates, mt \in MenuTemplates :
          run' = [run EXCEPT ![r] = Enter("manual", "call", "", c, nt, mt)]
    /\ UNCHANGED <<active, clock, files, deterministic, stub, faulty, chat, static>>

\* a caller passes its own cuisine and templates to main_with_sequential_chain
CallSequential(r) ==
    /\ r \in active /\ run[r].pc = "idle"
    /\ \E c \in Cuisines, nt \in NameTemplates, mt \in MenuTemplates :
          run' = [run EXCEPT ![r] = Enter("sequential", "call", "", c, nt, mt)]
    /\ UNCHANGED <<active, clock, files, deterministic, stub, faulty, chat, static>>

\* the if __name__ == '__main__' block: choice, initializeApp(), cuisine, dispatch
EntryPoint(r) ==
    /\ r \in active /\ run[r].pc = "idle"
    /\ \E choice \in Choices, c \in Cuisines :
          run' = [run EXCEPT ![r] =
                    IF choice = "1"
                    THEN Enter("manual", "entry", choice, c, NameTemplate, MenuTemplate)
                    ELSE IF choice = "2"
                    THEN Enter("sequential", "entry", choice, c, NameTemplate, MenuTemplate)
                    ELSE \* main() is called with no argument: cuisine is unbound
                         [ Fail(IdleRun, "TypeError", 0) EXCEPT
                             !.origin = "entry", !.choice = choice, !.entered = c,
                             !.runner = "manual",
                             !.phases = <<"FAILED">>,
                             !.console =
                                << <<"Invalid choice. Running default implementation.">> >> ]]
    /\ UNCHANGED <<active, clock, files, deterministic, stub, faulty, chat, static>>

\* webApp.py: a cuisine picked in the select box runs the sequential runner
WebApp(r) ==
    /\ r \in active /\ run[r].pc = "idle"
    /\ \E c \in WebCuisines :
          run' = [run EXCEPT ![r] =
                    Enter("sequential", "web", "", c, NameTemplate, MenuTemplate)]
    /\ UNCHANGED <<active, clock, files, deterministic, stub, faulty, chat, static>>

\* LLMChain(...), LLMChain(...), SequentialChain(...): the chains are validated
Construct(r) ==
    /\ run[r].pc = "construct"
    /\ run' = [run EXCEPT ![r] =
                 IF ValidChains({"cuisine"}, Chains(@), {"restaurant_name", "menu_items"})
                 THEN [@ EXCEPT !.pc = "render1"]
                 ELSE Fail(@, "ValueError", 0)]
    /\ UNCHANGED <<active, clock, files, deterministic, stub, faulty, chat, static>>

\* step i renders its prompt from the values it is given, or raises on a missing one
Render(r) ==
    /\ run[r].pc \in {"render1", "render2"}
    /\ LET f == run[r]
           i == StepOf(f.pc)
       IN  run' = [run EXCEPT ![r] =
                     IF MissingKeys(StepTemplate(f, i), Bindings(f, i)) # {}
                     THEN Fail(f, IF f.runner = "manual" THEN "KeyError" ELSE "ValueError", i)
                     ELSE [f EXCEPT
                             !.pc = IF i = 1 THEN "complete1" ELSE "complete2",
                             !.prompt = Format(StepTemplate(f, i), Bindings(f, i)),
                             !.phases = Append(@, IF i = 1 THEN "RENDER1" ELSE "RENDER2")]]
    /\ UNCHANGED <<active, clock, files, deterministic, stub, faulty, chat, static>>

\* the frame after step i's completion call has returned text
Completed(f, i, text) ==
    IF i = 1
    THEN [f EXCEPT !.pc = "render2", !.name = text,
                   !.calls = Append(@, [step |-> i, prompt |-> f.prompt,
                                        outcome |-> Returned(text)]),
                   !.phases = Append(@, "COMPLETE1")]
    ELSE [f EXCEPT !.pc = "emit", !.menu = text,
                   !.calls = Append(@, [step |-> i, prompt |-> f.prompt,
                                        outcome |-> Returned(text)]),
                   !.phases = Append(@, "COMPLETE2"),
                   !.result = IF f.runner = "manual" THEN EmptyDict
                              ELSE [k \in {"cuisine", "restaurant_name", "menu_items"} |->
                                      IF k = "cuisine" THEN f.cuisine
                                      ELSE IF k = "restaurant_name" THEN f.name
                                      ELSE text]]

\* step i calls the completion capability once with the rendered prompt
Complete(r) ==
    /\ run[r].pc \in {"complete1", "complete2"}
    /\ LET f == run[r]
           i == StepOf(f.pc)
       IN  \E o \in Answers(f.prompt) :
              /\ run' = [run EXCEPT ![r] =
                           IF o.ok
                           THEN Completed(f, i, o.text)
                           ELSE [ Fail(f, "CapabilityError", i) EXCEPT
                                    !.calls = Append(@, [step |-> i, prompt |-> f.prompt,
                                                         outcome |-> o]) ]]
              /\ stub' = IF deterministic THEN (f.prompt :> o) @@ stub ELSE stub
    /\ UNCHANGED <<active, clock, files, deterministic, faulty, chat, static>>

\* the console lines of a finished pipeline (the verbose chain log is left out)
FinalPrints(f) ==
    IF f.runner = "manual"
    THEN << <<"\n", "Final Output:">>,
            <<"Restaurant: ">> \o f.name,
            <<"Menu: ">> \o f.menu >>
    ELSE << <<"\n", "Sequential Chain Final Output: ">> \o ReprResult(f.result),
            <<"Restaurant: ">> \o f.result["restaurant_name"],
            <<"Menu: ">> \o f.result["menu_items"] >>

\* the results are printed, then the file name is taken from the clock
Emit(r) ==
    /\ run[r].pc = "emit"
    /\ run' = [run EXCEPT ![r] =
                 [@ EXCEPT !.pc = "open",
                           !.console = @ \o FinalPrints(run[r]),
                           !.stamp = clock,
                           !.filename = FileName(clock),
                           !.phases = Append(@, "EMIT")]]
    /\ UNCHANGED <<active, clock, files, deterministic, stub, faulty, chat, static>>

\* what the runner hands back, and what webApp.py then shows
Finish(f) ==
    [ f EXCEPT
        !.pc = "done",
        !.phases = Append(@, "TERMINAL"),
        !.returned = IF f.runner = "manual" THEN NoneResult ELSE DictResult(f.result),
        !.page = IF f.origin = "web"
                 THEN LET items == Split(f.result["menu_items"], ",")
                      IN  <<f.result["restaurant_name"]>>
                            \o [j \in DOMAIN items |-> <<"- ">> \o items[j]]
                 ELSE << >> ]

\* file-size limits (or free space) the environment may impose, in bytes: the
\* close then raises after that many bytes reached the file
SizeLimits == { 0, 46, 100, 261 }
\* str(e) of a failed open and of a failed close
OpenError(f) == <<"[Errno 13] Permission denied: ">> \o ReprStr(f.filename)
CloseError == <<"[Errno 27] File too large">>

\* mutant: the sink's exception is not caught
SinkRaises(f, msg) ==
    [ f EXCEPT !.pc = "failed", !.error = "OSError", !.failedAt = 3, !.sinkError = TRUE,
               !.phases = Append(@, "FAILED") ]

\* except Exception as e: the error is printed and the runner goes on to its end
\* (the printed line starts with a cross mark, left out here)
SinkFailed(f, msg) ==
    Finish([f EXCEPT !.sinkError = TRUE,
                     !.console = Append(@, <<"\n", "Error saving to file: ">> \o msg)])

\* open(filename, 'w'): the file is created or truncated, or the open raises
Open(r) ==
    /\ run[r].pc = "open"
    /\ \/ /\ files' = (run[r].filename :> << >>) @@ files
          /\ run' = [run EXCEPT ![r].pc = "write"]
       \/ /\ faulty
          /\ run' = [run EXCEPT ![r] = SinkFailed(@, OpenError(@))]
          /\ UNCHANGED files
    /\ UNCHANGED <<active, clock, deterministic, stub, faulty, chat, static>>

\* the file.write() calls inside the with block: the text is buffered in the handle,
\* the "Generated on" time is read from the clock; nothing reaches the file yet
Write(r) ==
    /\ run[r].pc = "write"
    /\ run' = [run EXCEPT ![r] = [@ EXCEPT !.pc = "close", !.generated = clock]]
    /\ UNCHANGED <<active, clock, files, deterministic, stub, faulty, chat, static>>

\* the end of the with block: the buffered text reaches the file from offset 0, or
\* the close raises after the bytes below the size limit did
Close(r) ==
    /\ run[r].pc = "close"
    /\ run[r].filename \in DOMAIN files
    /\ LET f == run[r]
           text == ReportText(f, f.generated)
       IN  \/ /\ files' = [files EXCEPT ![f.filename] = Overlay(@, text)]
              /\ run' = [run EXCEPT ![r] =
                    Finish([f EXCEPT !.saved = TRUE,
                                     !.console = Append(@, <<"\n", "Results saved to: ">>
                                                              \o f.filename)])]
           \/ \E n \in SizeLimits :
                 /\ faulty
                 /\ n < Len(text)
                 /\ files' = [files EXCEPT ![f.filename] = Overlay(@, SubSeq(text, 1, n))]
                 /\ run' = [run EXCEPT ![r] = SinkFailed(f, CloseError)]
    /\ UNCHANGED <<active, clock, deterministic, stub, faulty, chat, static>>

\* a second passes
Tick ==
    /\ clock < ClockStart + MaxTicks
    /\ clock' = clock + 1
    /\ UNCHANGED <<run, active, files, deterministic, stub, faulty, chat, static>>

(***************************************************************************)
(* simple_agent_with_memory: ConversationChain with a window memory        *)
(***************************************************************************)
\* ConversationBufferWindowMemory(k=5)
MemoryK == 5

\* create_conversation_prompt()
ConversationTemplate ==
    << Lit("You are a helpful and friendly AI assistant. You remember our previous conversation."),
       Lit("\n"), Lit("\n"), Lit("    Current conversation:"), Lit("\n"), Lit("    "),
       Var("history"), Lit("\n"), Lit("    Human: "), Var("input"), Lit("\n"), Lit("    AI:") >>

\* lines typed at the prompt, one token per character
RawInputs ==
    { <<"h", "i">>, <<" ", "h", "i", " ">>, <<"o", "k">>, << >>, <<" ", "\t">>,
      <<"q", "u", "i", "t">>, <<" ", "E", "x", "i", "t">>, <<"B", "Y", "E">> }
\* texts the model may answer
Replies == { <<"Hello!">>, <<"Sure.">> }

Whitespace == { " ", "\t", "\n", "\r" }

RECURSIVE LStrip(_)
LStrip(t) == IF t # << >> /\ Head(t) \in Whitespace THEN LStrip(Tail(t)) ELSE t
RECURSIVE RStrip(_)
RStrip(t) ==
    IF t # << >> /\ t[Len(t)] \in Whitespace THEN RStrip(SubSeq(t, 1, Len(t) - 1)) ELSE t
\* str.strip()
Strip(t) == RStrip(LStrip(t))

LowerChar(c) ==
    CASE c = "B" -> "b" [] c = "E" -> "e" [] c = "I" -> "i" [] c = "Q" -> "q"
      [] c = "T" -> "t" [] c = "U" -> "u" [] c = "X" -> "x" [] c = "Y" -> "y"
      [] OTHER -> c
\* str.lower()
Lower(t) == [i \in DOMAIN t |-> LowerChar(t[i])]

ExitWords == { <<"q", "u", "i", "t">>, <<"e", "x", "i", "t">>, <<"b", "y", "e">> }

HumanMessage(text) == [type |-> "human", content |-> text]
AIMessage(text) == [type |-> "ai", content |-> text]

\* the last n elements of a sequence: seq[-n:] for n > 0
LastN(seq, n) == SubSeq(seq, IF Len(seq) > n THEN Len(seq) - n + 1 ELSE 1, Len(seq))

\* mutant: the window counts messages, not exchanges
WindowOfMessages(messages, k) == IF k > 0 THEN LastN(messages, k) ELSE << >>

\* ConversationBufferWindowMemory.buffer: messages[-k * 2:] if k > 0 else []
Window(messages, k) == IF k > 0 THEN LastN(messages, k * 2) ELSE << >>

RECURSIVE Join(_, _)
\* sep.join(seq)
Join(seq, sep) ==
    IF seq = << >> THEN << >>
    ELSE IF Len(seq) = 1 THEN seq[1]
    ELSE seq[1] \o sep \o Join(Tail(seq), sep)

\* get_buffer_string: "Human: ..." and "AI: ..." lines joined by newlines
BufferString(messages) ==
    Join([i \in DOMAIN messages |->
            (IF messages[i].type = "human" THEN <<"Human", ": ">> ELSE <<"AI", ": ">>)
                \o messages[i].content],
         <<"\n">>)

\* memory.load_memory_variables: the history the next prompt is rendered with
History(messages) == BufferString(Window(messages, MemoryK))

\* memory.save_context: the exchange is appended to the chat memory
SaveContext(messages, input, output) ==
    messages \o <<HumanMessage(input), AIMessage(output)>>

\* create_conversation_chain(): empty memory, the loop about to read a line
ChatStart ==
    [ pc |-> "input", messages |-> << >>, exchanges |-> << >>,
      last |-> [event |-> "start", input |-> << >>, history |-> << >>,
                prompt |-> << >>, called |-> FALSE] ]

\* if not user_input: continue -- no model call, the loop reads the next line
TurnSkipped(c, user_input) ==
    [c EXCEPT !.last = [event |-> "skip", input |-> user_input,
                        history |-> << >>, prompt |-> << >>, called |-> FALSE]]

\* mutant: the human input is saved to the memory before the model is called
TurnFailedSaved(c, user_input, history, prompt) ==
    [c EXCEPT !.messages = Append(@, HumanMessage(user_input)),
              !.last = [event |-> "error", input |-> user_input,
                        history |-> history, prompt |-> prompt, called |-> TRUE]]

\* predict raised: save_context is not reached, except Exception prints the error
\* and the loop reads the next line
TurnFailed(c, user_input, history, prompt) ==
    [c EXCEPT !.last = [event |-> "error", input |-> user_input,
                        history |-> history, prompt |-> prompt, called |-> TRUE]]

\* one iteration of the while loop of main
Turn ==
    /\ chat.pc = "input"
    /\ Len(chat.exchanges) < MaxTurns
    /\ \E raw \in RawInputs :
          LET user_input == Strip(raw)
              history == History(chat.messages)
              prompt == Format(ConversationTemplate,
                               ("history" :> history) @@ ("input" :> user_input))
          IN  IF Lower(user_input) \in ExitWords
              THEN chat' = [chat EXCEPT !.pc = "exited",
                              !.last = [event |-> "bye", input |-> user_input,
                                        history |-> << >>, prompt |-> << >>,
                                        called |-> FALSE]]
              ELSE IF user_input = << >>
              THEN chat' = TurnSkipped(chat, user_input)
              ELSE \/ \E reply \in Replies :
                         chat' = [chat EXCEPT
                              !.messages = SaveContext(@, user_input, reply),
                              !.exchanges = Append(@, [human |-> user_input, ai |-> reply]),
                              !.last = [event |-> "reply", input |-> user_input,
                                        history |-> history, prompt |-> prompt,
                                        called |-> TRUE]]
                   \/ chat' = TurnFailed(chat, user_input, history, prompt)
    /\ UNCHANGED <<run, active, clock, files, deterministic, stub, faulty, static>>

(***************************************************************************)
(* langchain_prompts/chatbot.py: static_chat_message                       *)
(***************************************************************************)
SystemMessage(text) == [type |-> "system", content |-> text]

\* lines typed at the prompt, one token per character (no strip, no lower here)
StaticInputs ==
    { <<"h", "i">>, << >>, <<"E", "x", "i", "t">>, <<"e", "x", "i", "t">> }
\* user_input == 'exit'
ExitInput == <<"e", "x", "i", "t">>

\* messages.append(HumanMessage(content=user_input))
AppendHuman(messages, user_input) == Append(messages, HumanMessage(user_input))

\* mutant: the model's response is not kept in the history
AppendReplyLost(messages, content) == messages

\* messages.append(AIMessage(content=response.content))
AppendReply(messages, content) == Append(messages, AIMessage(content))

\* the list before the loop, the loop about to read a line
StaticStart ==
    [ pc |-> "input",
      messages |-> << SystemMessage(<<"You are a helpful assistemt">>) >>,
      sent |-> << >>, turns |-> << >>,
      last |-> [event |-> "start", input |-> << >>, called |-> FALSE] ]

\* one iteration of the while loop: the input is appended; 'exit' empties the list
\* and breaks; otherwise the model is invoked with the list and its response is
\* appended (and the list printed), or the invoke raises out of the function
StaticTurn ==
    /\ static.pc = "input"
    /\ Len(static.turns) < MaxStaticTurns
    /\ \E user_input \in StaticInputs :
          LET appended == AppendHuman(static.messages, user_input)
          IN  IF user_input = ExitInput
              THEN static' = [static EXCEPT
                                !.pc = "done", !.messages = << >>,
                                !.last = [event |-> "exit", input |-> user_input,
                                          called |-> FALSE]]
              ELSE \/ \E reply \in Replies :
                         static' = [static EXCEPT
                                !.messages = AppendReply(appended, reply),
                                !.sent = appended,
                                !.turns = Append(@, [human |-> user_input, ai |-> reply]),
                                !.last = [event |-> "reply", input |-> user_input,
                                          called |-> TRUE]]
                   \/ static' = [static EXCEPT
                                !.pc = "raised", !.messages = appended,
                                !.sent = appended,
                                !.last = [event |-> "raised", input |-> user_input,
                                          called |-> TRUE]]
    /\ UNCHANGED <<run, active, clock, files, deterministic, stub, faulty, chat>>

(***************************************************************************)
(* Specifications of the pipeline                                          *)
(***************************************************************************)
NoFiles == [n \in {} |-> << >>]
NoAnswers == [p \in {} |-> Raised]

InitPipeline ==
    /\ run = [r \in RunIds |-> IdleRun]
    /\ clock = ClockStart
    /\ files = NoFiles
    /\ deterministic \in BOOLEAN
    /\ stub = NoAnswers
    /\ chat = ChatStart
    /\ static = StaticStart

\* one run, started by any caller
Init == InitPipeline /\ active = {1} /\ faulty = TRUE

Step(r) ==
    \/ Construct(r) \/ Render(r) \/ Complete(r) \/ Emit(r)
    \/ Open(r) \/ Write(r) \/ Close(r)

Next ==
    \/ \E r \in RunIds : CallMain(r) \/ CallSequential(r) \/ EntryPoint(r) \/ WebApp(r)
    \/ \E r \in RunIds : Step(r)
    \/ Tick

Spec == Init /\ [][Next]_vars

\* two runs of the application (entry point or web request), interleaved, in a
\* working directory that does not fail and with a model that answers a prompt the
\* same way each time
InitTwoRuns == InitPipeline /\ active = RunIds /\ faulty = FALSE /\ deterministic

NextTwoRuns ==
    \/ \E r \in RunIds : EntryPoint(r) \/ WebApp(r)
    \/ \E r \in RunIds : Step(r)
    \/ Tick

SpecTwoRuns == InitTwoRuns /\ [][NextTwoRuns]_vars

InitChat ==
    /\ run = [r \in RunIds |-> IdleRun]
    /\ active = {}
    /\ clock = ClockStart
    /\ files = NoFiles
    /\ deterministic = FALSE
    /\ stub = NoAnswers
    /\ faulty = FALSE
    /\ chat = ChatStart
    /\ static = StaticStart

NextChat == Turn

SpecChat == InitChat /\ [][NextChat]_vars

InitStatic == InitChat

NextStatic == StaticTurn

SpecStatic == InitStatic /\ [][NextStatic]_vars

(***************************************************************************)
(* Properties                                                              *)
(***************************************************************************)
IsPrefix(a, b) == Len(a) <= Len(b) /\ a = SubSeq(b, 1, Len(a))
BothCompleted(f) ==
    Len(f.calls) = 2 /\ f.calls[1].outcome.ok /\ f.calls[2].outcome.ok
AppTemplates(f) == f.nameT = NameTemplate /\ f.menuT = MenuTemplate

\* C1: with a deterministic stubbed capability, a finished manual run and a finished
\* automatic run of the same cuisine return the same result to their callers: the
\* same restaurant_name and menu_items under the same keys, with the cuisine.
C1_RunnersReturnSame ==
    deterministic =>
        \A a \in RunIds, b \in RunIds :
            ( /\ run[a].pc = "done" /\ run[a].runner = "manual"
              /\ run[b].pc = "done" /\ run[b].runner = "sequential"
              /\ run[a].cuisine = run[b].cuisine
              /\ AppTemplates(run[a]) /\ AppTemplates(run[b]) )
            => /\ run[a].returned = run[b].returned
               /\ run[a].returned.tag = "dict"
               /\ DOMAIN run[a].returned.dict = {"cuisine", "restaurant_name", "menu_items"}

\* C2: when the completion capability fails at step 1 or 2, the run ends failed with
\* that error, returns no result and has created or written no report file.
C2_FailureLeavesNothing ==
    \A r \in RunIds :
        run[r].error = "CapabilityError" =>
            /\ run[r].pc = "failed"
            /\ run[r].failedAt \in {1, 2}
            /\ run[r].returned = NoResult
            /\ ~run[r].saved /\ run[r].filename = << >>
            /\ files = NoFiles

C2_Witness ==
    \E r \in RunIds :
        /\ run[r].error = "CapabilityError" /\ run[r].failedAt = 2
        /\ run[r].runner = "sequential"

\* C3: when both completions succeeded and opening or writing the report raised, the
\* failure is printed, the runner still ends normally, and the automatic runner
\* returns the complete result with both restaurant_name and menu_items.
C3_SinkFailureSwallowed ==
    \A r \in RunIds :
        run[r].sinkError =>
            /\ run[r].pc = "done" /\ run[r].error = ""
            /\ BothCompleted(run[r])
            /\ SubSeq(run[r].console[Len(run[r].console)], 1, 2)
                  = <<"\n", "Error saving to file: ">>
            /\ run[r].runner = "sequential" =>
                  /\ run[r].returned.tag = "dict"
                  /\ DOMAIN run[r].returned.dict = {"cuisine", "restaurant_name", "menu_items"}
                  /\ run[r].returned.dict["cuisine"] = run[r].cuisine
                  /\ run[r].returned.dict["restaurant_name"] = run[r].calls[1].outcome.text
                  /\ run[r].returned.dict["menu_items"] = run[r].calls[2].outcome.text

C3_Witness ==
    \E r \in RunIds :
        /\ run[r].sinkError /\ run[r].runner = "sequential" /\ run[r].pc = "done"
        /\ run[r].filename \in DOMAIN files
        /\ Len(files[run[r].filename]) > 0

PhaseOrder == <<"INIT", "RENDER1", "COMPLETE1", "RENDER2", "COMPLETE2", "EMIT", "TERMINAL">>

\* C4: the phases of a run are a prefix of INIT, render 1, complete 1, render 2,
\* complete 2, EMIT, TERMINAL (a failure ends the prefix); the menu call is issued
\* after the name call returned, with the prompt rendered from the returned name; the
\* results are printed and the file named, opened or written only after both
\* completions returned.
C4_StepOrder ==
    \A r \in RunIds :
        LET f == run[r]
            p == f.phases
        IN  /\ \/ IsPrefix(p, PhaseOrder)
               \/ /\ p # << >> /\ p[Len(p)] = "FAILED"
                  /\ IsPrefix(SubSeq(p, 1, Len(p) - 1), SubSeq(PhaseOrder, 1, 4))
            /\ Len(f.calls) >= 2 =>
                  /\ f.calls[1].outcome.ok
                  /\ f.calls[2].prompt =
                        Format(f.menuT, ("restaurant_name" :> f.calls[1].outcome.text)
                                            @@ ("cuisine" :> f.cuisine))
            /\ (f.filename # << >> \/ Len(f.console) > 1 \/ f.pc \in {"open", "write", "close", "done"})
                  => BothCompleted(f)
            /\ files # NoFiles => \E q \in RunIds : BothCompleted(run[q])

C4_Witness ==
    \E r \in RunIds :
        /\ run[r].phases = PhaseOrder
        /\ run[r].saved
        /\ run[r].calls[1].outcome.text # run[r].cuisine

\* C5: each step issues at most one completion call, a run at most two, and a failed
\* call is the last call of its run, which is then in the failed state.
C5_NoRetry ==
    \A r \in RunIds :
        LET c == run[r].calls
        IN  /\ Len(c) <= 2
            /\ \A i \in DOMAIN c, j \in DOMAIN c : c[i].step = c[j].step => i = j
            /\ \A i \in DOMAIN c :
                  ~c[i].outcome.ok => i = Len(c) /\ run[r].pc = "failed"

C5_Witness ==
    \E r \in RunIds :
        /\ Len(run[r].calls) = 2
        /\ ~run[r].calls[2].outcome.ok
        /\ run[r].pc = "failed"

\* the menu template names a placeholder that is neither the initial input nor the
\* output key of the first step (the name template is one the first step can render)
UnknownMenuPlaceholder(f) ==
    /\ f.pc # "idle" /\ f.error # "TypeError"
    /\ ~(InputVariables(f.menuT) \subseteq {"cuisine", "restaurant_name"})
    /\ InputVariables(f.nameT) \subseteq {"cuisine"}

\* C6: with such a menu template the automatic runner fails before any completion
\* call; the manual runner issues the name call and no other, and once that call has
\* returned it fails at the second step before calling again; no file is written.
C6_UnknownPlaceholder ==
    \A r \in RunIds :
        LET f == run[r]
        IN  UnknownMenuPlaceholder(f) =>
              /\ files = NoFiles /\ ~f.saved /\ f.pc # "done"
              /\ f.runner = "sequential" =>
                    /\ f.calls = << >>
                    /\ f.pc \in {"construct", "failed"}
                    /\ f.pc = "failed" => f.failedAt = 0 /\ f.error = "ValueError"
              /\ f.runner = "manual" =>
                    /\ Len(f.calls) <= 1
                    /\ \A i \in DOMAIN f.calls : f.calls[i].step = 1
                    /\ f.pc \in {"render1", "complete1", "render2", "failed"}
                    /\ f.pc = "failed" => Len(f.calls) = 1
                    /\ (f.pc = "failed" /\ f.calls[1].outcome.ok)
                          => f.failedAt = 2 /\ f.error = "KeyError"

C6_Witness ==
    \E r \in RunIds :
        /\ UnknownMenuPlaceholder(run[r])
        /\ run[r].runner = "manual" /\ run[r].pc = "failed"
        /\ run[r].failedAt = 2 /\ Len(run[r].calls) = 1

NoNewline(text) == \A i \in DOMAIN text : text[i] # "\n"
\* restaurant_output_<YYYYMMDD_HHMMSS>.txt
StampedName(name) ==
    /\ Len(name) = 17
    /\ name[1] = "restaurant_output_" /\ name[17] = ".txt"
    /\ \A i \in 2..16 :
          IF i = 10 THEN name[i] = "_" ELSE \E d \in DOMAIN Digits : name[i] = Digits[d]
\* <YYYY-MM-DD HH:MM:SS>
StampedLine(t) ==
    /\ Len(t) = 19
    /\ \A i \in 1..19 :
          IF i \in {5, 8} THEN t[i] = "-"
          ELSE IF i = 11 THEN t[i] = " "
          ELSE IF i \in {14, 17} THEN t[i] = ":"
          ELSE \E d \in DOMAIN Digits : t[i] = Digits[d]
Saved(f) == f.pc = "done" /\ f.saved /\ f.filename \in DOMAIN files

\* C7 as stated: the content lines of a saved report are exactly the title line,
\* Generated on, Cuisine Type, 50 dashes, Restaurant Name, Menu Items, 50 equals
\* signs (checked on runs whose two outputs hold no line break).
C7_SevenLines ==
    \A r \in RunIds :
        LET f == run[r]
        IN  (Saved(f) /\ NoNewline(f.calls[1].outcome.text)
                      /\ NoNewline(f.calls[2].outcome.text)) =>
              /\ StampedName(f.filename)
              /\ ContentLines(files[f.filename]) =
                    << Bytes(<<"=== LangChain Restaurant Generator Output ===">>),
                       Bytes(<<"Generated on: ">> \o ReportStamp(f.generated)),
                       Bytes(<<"Cuisine Type: ">> \o f.cuisine),
                       Bytes(Repeat("-", 50)),
                       Bytes(<<"Restaurant Name: ">> \o f.calls[1].outcome.text),
                       Bytes(<<"Menu Items: ">> \o f.calls[2].outcome.text),
                       Bytes(Repeat("=", 50)) >>

\* C7 amended: the text of a saved report is, in order, the title line, Generated on,
\* for the manual runner the line "Method: Manual Chain Management", Cuisine Type, 50
\* dashes and a blank line, for the automatic runner the line "Sequential Chain Final
\* Output: <result>" and a blank line, Restaurant Name and a blank line, Menu Items, a
\* blank line and 50 equals signs; the file is named
\* restaurant_output_<YYYYMMDD_HHMMSS>.txt.
C7_ReportText ==
    \A r \in RunIds :
        LET f == run[r]
            name == f.calls[1].outcome.text
            menu == f.calls[2].outcome.text
        IN  Saved(f) =>
              /\ StampedName(f.filename)
              /\ StampedLine(ReportStamp(f.generated))
              /\ f.stamp <= f.generated
              /\ files[f.filename] = Bytes(
                    <<"=== LangChain Restaurant Generator Output ===", "\n">>
                    \o <<"Generated on: ">> \o ReportStamp(f.generated) \o <<"\n">>
                    \o (IF f.runner = "manual"
                        THEN <<"Method: Manual Chain Management", "\n">> ELSE << >>)
                    \o <<"Cuisine Type: ">> \o f.cuisine \o <<"\n">>
                    \o Repeat("-", 50) \o <<"\n", "\n">>
                    \o (IF f.runner = "sequential"
                        THEN <<"Sequential Chain Final Output: ",
                               "{", "'cuisine'", ": ">> \o ReprStr(f.cuisine)
                             \o <<", ", "'restaurant_name'", ": ">> \o ReprStr(name)
                             \o <<", ", "'menu_items'", ": ">> \o ReprStr(menu)
                             \o <<"}", "\n", "\n">>
                        ELSE << >>)
                    \o <<"Restaurant Name: ">> \o name \o <<"\n", "\n">>
                    \o <<"Menu Items: ">> \o menu \o <<"\n">>
                    \o <<"\n">> \o Repeat("=", 50))

C7_Witness ==
    \E r \in RunIds :
        /\ Saved(run[r]) /\ run[r].runner = "manual"
        /\ run[r].stamp < run[r].generated
        /\ Second(run[r].stamp) = 59

\* C8: a report that a run has saved stays in the working directory as that run
\* wrote it, with its own cuisine, name and menu, whatever another run does.
C8_ReportsIndependent ==
    \A r \in RunIds :
        (run[r].pc = "done" /\ run[r].saved) =>
            /\ run[r].filename \in DOMAIN files
            /\ files[run[r].filename] = ReportText(run[r], run[r].generated)

\* "Human: ..." and "AI: ..." lines of a sequence of exchanges, in order
ExchangeLines(es) ==
    Join([i \in 1..(2 * Len(es)) |->
            IF i % 2 = 1 THEN <<"Human", ": ">> \o es[(i + 1) \div 2].human
            ELSE <<"AI", ": ">> \o es[i \div 2].ai],
         <<"\n">>)

\* C9: after n successful exchanges the history the next prompt is rendered with is
\* the last min(n, 5) exchanges, human input then AI response, oldest first, and the
\* history a reply was rendered with is that of the exchanges before it.
C9_WindowHistory ==
    LET n == Len(chat.exchanges)
        recent(k) == SubSeq(chat.exchanges, (IF k > 5 THEN k - 5 ELSE 0) + 1, k)
    IN  /\ History(chat.messages) = ExchangeLines(recent(n))
        /\ chat.last.event = "reply" => chat.last.history = ExchangeLines(recent(n - 1))

C9_Witness ==
    /\ Len(chat.exchanges) = 7
    /\ chat.last.event = "reply"
    /\ chat.exchanges[1] # chat.exchanges[3]

\* C10: a choice that is neither "1" nor "2" is reported as invalid and then runs the
\* manual runner with the entered cuisine and the application's templates.
C10_InvalidChoiceRunsManual ==
    \A r \in RunIds :
        LET f == run[r]
        IN  (f.origin = "entry" /\ f.choice \notin {"1", "2"}) =>
              /\ f.console[1] = <<"Invalid choice. Running default implementation.">>
              /\ f.runner = "manual"
              /\ f.cuisine = f.entered
              /\ f.error # "TypeError"
              /\ f.phases # << >> /\ f.phases[1] = "INIT"

\* C11: a turn whose model call raised is reported and leaves the conversation
\* memory as it was, so the next turn is rendered with the same history, and the loop
\* reads the next input; an empty or whitespace-only input issues no model call and
\* leaves the memory as it was.
C11_FailedTurnKeepsMemory ==
    [][ chat'.last.event \in {"error", "skip"} =>
            /\ chat'.messages = chat.messages
            /\ chat'.exchanges = chat.exchanges
            /\ History(chat'.messages) = History(chat.messages)
            /\ chat'.pc = "input"
            /\ chat'.last.event = "error" =>
                  /\ chat'.last.called
                  /\ chat'.last.history = History(chat.messages)
            /\ chat'.last.event = "skip" =>
                  /\ ~chat'.last.called
                  /\ chat'.last.input = << >> ]_vars

C11_Witness ==
    /\ chat.last.event = "error"
    /\ Len(chat.messages) = 4
    /\ chat.pc = "input"

\* C12: the latest model invocation of the static chat loop received the system
\* message first, then every earlier turn's human and AI message in order, then the
\* latest human message; 'exit' is never sent to the model; on 'exit' the history is
\* emptied and the loop has ended.
C12_FullHistorySent ==
    LET s == static.sent
        before == IF static.last.event = "reply"
                  THEN Len(static.turns) - 1 ELSE Len(static.turns)
    IN  /\ static.last.called =>
              /\ Len(s) = 2 * before + 2
              /\ s[1] = SystemMessage(<<"You are a helpful assistemt">>)
              /\ \A i \in 2..Len(s) :
                    s[i].type = IF i % 2 = 0 THEN "human" ELSE "ai"
              /\ \A j \in 1..before :
                    /\ s[2 * j] = HumanMessage(static.turns[j].human)
                    /\ s[2 * j + 1] = AIMessage(static.turns[j].ai)
              /\ s[Len(s)] = HumanMessage(static.last.input)
        /\ \A i \in DOMAIN s : s[i].content # <<"e", "x", "i", "t">>
        /\ static.last.input = <<"e", "x", "i", "t">> =>
              /\ ~static.last.called
              /\ static.pc = "done" /\ static.messages = << >>
        /\ static.pc = "done" => static.messages = << >>
        /\ static.pc = "input" =>
              static.messages = IF s = << >> THEN static.messages
                                ELSE Append(s, static.messages[Len(static.messages)])

C12_Witness ==
    /\ static.pc = "done"
    /\ Len(static.sent) = 6
    /\ static.turns[1] # static.turns[2]

====
